---- MODULE Spec2Model ----
(***************************************************************************)
(* Model of the platform adapter layer of sociallagos:                     *)
(*   src/src/lib/social/platforms/facebook.platform.ts   (FacebookPlatform) *)
(*   src/src/lib/social/platforms/instagram.platform.ts  (InstagramPlatform)*)
(*                                                                         *)
(* Every adapter method is an async function.  It runs synchronously up to *)
(* its first `await fetch(...)`, is suspended while the request is in      *)
(* flight, and resumes with the outcome of `fetch` + `res.json()`.  One    *)
(* action models the code from one suspension point to the next.           *)
(*                                                                         *)
(* Strings on which the code does character work (userId, state, postId,   *)
(* redirectUri, error messages) are sequences of characters/tokens; other  *)
(* strings are opaque.  An optional JSON field / JS `undefined` is the     *)
(* empty sequence, a present value v is <<v>>.                             *)
(***************************************************************************)
EXTENDS Integers, Sequences, FiniteSets

(***************************************************************************)
(* Bounds of the model                                                     *)
(***************************************************************************)
\* longest userId handed to getAuthUrl
MaxUserIdLen == 2
\* latest value Date.now() takes (milliseconds)
MaxNow == 1
\* longest page list the provider returns on /me/accounts
MaxPages == 2
\* largest count the provider reports for one metric
MaxCount == 1
\* bytes drawn by crypto.randomBytes (16 in the program)
RandomBytesLen == 1

(***************************************************************************)
(* Program constants                                                       *)
(***************************************************************************)
\* default validity window in seconds, `expires_in ?? 5184000`
DefaultExpiresIn == 5184000
\* seconds to milliseconds, `* 1000`
MsPerSecond == 1000

(***************************************************************************)
(* Values                                                                  *)
(***************************************************************************)
None == <<>>
Some(v) == <<v>>
IsSome(o) == Len(o) > 0
\* a ?? b
Coalesce(o, d) == IF IsSome(o) THEN o[1] ELSE d

\* the callers of one adapter instance: c1 makes its calls one at a time;
\* the call of c0 runs while no other call is in flight, then c2 makes the
\* same call concurrently with a call of c3
Callers == {"c0", "c1", "c2", "c3"}
Sequential == {"c1"}
Alone == "c0"
Same == "c2"
Other == "c3"

\* the values caller c passes for an argument: any of them when it calls one
\* at a time, the given ones when its calls run beside another caller's
Passes(c, any, given) == IF c \in Sequential THEN any ELSE given

\* the outcome of a synchronous piece of code: a value or a thrown error
Ok(v) == [ok |-> TRUE, v |-> v]
Throw(e) == [ok |-> FALSE, err |-> e]

\* new PlatformError(platform, message)          (@/lib/utils/errors)
PlatformError(platform, message) ==
    [class |-> "PlatformError", platform |-> platform, message |-> message]
\* what a rejected fetch() / res.json() promise carries: not a PlatformError
TransportError(stage) ==
    [class |-> IF stage = "invalid json" THEN "SyntaxError" ELSE "TypeError",
     platform |-> "", message |-> <<stage>>]

\* what a finished call left for its caller
NoResult == [kind |-> "none"]
Returned(v) == [kind |-> "return", value |-> v]
Thrown(e) == [kind |-> "throw", error |-> e]
Outcome(r) == IF r.ok THEN Returned(r.v) ELSE Thrown(r.err)

RECURSIVE Concat(_)
\* the concatenation of a sequence of sequences
Concat(ss) == IF ss = <<>> THEN <<>> ELSE Head(ss) \o Concat(Tail(ss))

RECURSIVE Join(_, _)
\* Array.prototype.join on an array of opaque strings
Join(xs, sep) ==
    IF xs = <<>> THEN <<>>
    ELSE IF Len(xs) = 1 THEN <<xs[1]>>
    ELSE <<xs[1], sep>> \o Join(Tail(xs), sep)

\* String.prototype.includes
Includes(s, sub) ==
    \E i \in 0..(Len(s) - Len(sub)) :
        \A j \in 1..Len(sub) : s[i + j] = sub[j]

\* sequences over S of length at most n
SeqsUpTo(S, n) == UNION {[1..k -> S] : k \in 0..n}

(***************************************************************************)
(* Inputs                                                                  *)
(***************************************************************************)
UserIdChars == {"u", ":"}
UserIds == SeqsUpTo(UserIdChars, MaxUserIdLen)
RedirectUris ==
    {<<"h", ":", "/", "/", "[", ":", ":", "1", "]">>,
     <<"c", "b", "?", "a", "=", "<", "1", ">", "&", "b">>}
HexDigits == {"0", "f"}
\* crypto.randomBytes(n).toString("hex"): 2n hex digits
RandomHex == [1..(2 * RandomBytesLen) -> HexDigits]
\* process.env.META_APP_ID / META_APP_SECRET: unset, empty, or set
AppIdValues == {None, Some(""), Some("app")}
AppSecretValues == {None, Some(""), Some("secret")}
Tokens == {"tokA", "tokB"}
\* the values Date.now() takes; it never goes back during a call
Clock == 0..MaxNow

\* the arguments by caller
UserIdsOf(c) == Passes(c, UserIds, {<<"u">>})
RedirectUrisOf(c) ==
    Passes(c, RedirectUris, {u \in RedirectUris : u[1] = "h"})
RandomHexOf(c) ==
    Passes(c, RandomHex, {[i \in 1..(2 * RandomBytesLen) |-> "0"]})
ClockOf(c) == Passes(c, Clock, {0})
\* concurrent calls are for different tokens
TokensOf(c) == Passes(c, Tokens, IF c = Other THEN {"tokB"} ELSE {"tokA"})

(***************************************************************************)
(* State                                                                   *)
(***************************************************************************)
VARIABLES
    env,      \* process.env: [META_APP_ID, META_APP_SECRET], read-only
    pc,       \* per caller: "idle", an await point, or "done"
    self,     \* per caller: the running call's arguments and locals
    net,      \* per caller: the requests the running call has issued, in order
    result    \* per caller: what the finished call returned or threw

vars == <<env, pc, self, net, result>>

Init ==
    /\ env \in [META_APP_ID : AppIdValues, META_APP_SECRET : AppSecretValues]
    /\ pc = [c \in Callers |-> "idle"]
    /\ self = [c \in Callers |-> [method |-> "none"]]
    /\ net = [c \in Callers |-> <<>>]
    /\ result = [c \in Callers |-> NoResult]

\* an adapter that keeps the outcome of the last finished call in a field
\* every caller reads
FinishShared(c, r) ==
    /\ pc' = [pc EXCEPT ![c] = "done"]
    /\ result' = [d \in Callers |-> Outcome(r)]
    /\ UNCHANGED net

\* the call of caller c ends with outcome r
Finish(c, r) ==
    /\ pc' = [pc EXCEPT ![c] = "done"]
    /\ result' = [result EXCEPT ![c] = Outcome(r)]
    /\ UNCHANGED net

\* the call of caller c issues request req and is suspended at await point at
Fetch(c, req, at) ==
    /\ pc' = [pc EXCEPT ![c] = at]
    /\ net' = [net EXCEPT ![c] = Append(@, req)]
    /\ UNCHANGED result

\* the two ways a request fails in transport: fetch() rejects, res.json() rejects
TransportFailures == {"fetch failed", "invalid json"}

\* what `await fetch(..)` followed by `await res.json()` can produce
FetchOutcomes(payloads) ==
    {[kind |-> "reject", stage |-> s] : s \in TransportFailures}
    \cup {[kind |-> "json", body |-> p] : p \in payloads}

\* record rec with field name set to val
With(rec, name, val) ==
    [x \in DOMAIN rec \cup {name} |-> IF x = name THEN val ELSE rec[x]]

(***************************************************************************)
(* Environment configuration                                               *)
(***************************************************************************)
\* !id : undefined and "" are falsy
Falsy(o) == o = None \/ o = Some("")

\* a string operand of && that is neither undefined nor ""
Truthy(o) == ~Falsy(o)

FacebookAppId(e) ==
    IF Falsy(e.META_APP_ID)
    THEN Throw(PlatformError("facebook", <<"META_APP_ID no configurado">>))
    ELSE Ok(e.META_APP_ID[1])

FacebookAppSecret(e) ==
    IF Falsy(e.META_APP_SECRET)
    THEN Throw(PlatformError("facebook", <<"META_APP_SECRET no configurado">>))
    ELSE Ok(e.META_APP_SECRET[1])

InstagramAppId(e) ==
    IF Falsy(e.META_APP_ID)
    THEN Throw(PlatformError("instagram", <<"META_APP_ID no configurado">>))
    ELSE Ok(e.META_APP_ID[1])

\* a getter that only rejects an unset variable, not an empty one
InstagramAppSecretUnsetOnly(e) ==
    IF e.META_APP_SECRET = None
    THEN Throw(PlatformError("instagram", <<"META_APP_SECRET no configurado">>))
    ELSE Ok(e.META_APP_SECRET[1])

InstagramAppSecret(e) ==
    IF Falsy(e.META_APP_SECRET)
    THEN Throw(PlatformError("instagram", <<"META_APP_SECRET no configurado">>))
    ELSE Ok(e.META_APP_SECRET[1])

(***************************************************************************)
(* getAuthUrl                                                              *)
(***************************************************************************)
\* the characters encodeURIComponent leaves as they are: A-Z a-z 0-9 and
\* - _ . ! ~ * ' ( )
Unreserved ==
    {"A", "B", "C", "D", "E", "F", "G", "H", "I", "J", "K", "L", "M", "N",
     "O", "P", "Q", "R", "S", "T", "U", "V", "W", "X", "Y", "Z",
     "a", "b", "c", "d", "e", "f", "g", "h", "i", "j", "k", "l", "m", "n",
     "o", "p", "q", "r", "s", "t", "u", "v", "w", "x", "y", "z",
     "0", "1", "2", "3", "4", "5", "6", "7", "8", "9",
     "-", "_", ".", "!", "~", "*", "'", "(", ")"}

\* encodeURIComponent, character by character: the escape of every other
\* printable ASCII character and of tab, line feed and carriage return
\* (the grave accent, escaped as %60, cannot be written in a string here)
EncodeChar(ch) ==
    IF ch \in Unreserved THEN ch
    ELSE CASE ch = " " -> "%20"
           [] ch = "\"" -> "%22"
           [] ch = "#" -> "%23"
           [] ch = "$" -> "%24"
           [] ch = "%" -> "%25"
           [] ch = "&" -> "%26"
           [] ch = "+" -> "%2B"
           [] ch = "," -> "%2C"
           [] ch = "/" -> "%2F"
           [] ch = ":" -> "%3A"
           [] ch = ";" -> "%3B"
           [] ch = "<" -> "%3C"
           [] ch = "=" -> "%3D"
           [] ch = ">" -> "%3E"
           [] ch = "?" -> "%3F"
           [] ch = "@" -> "%40"
           [] ch = "[" -> "%5B"
           [] ch = "\\" -> "%5C"
           [] ch = "]" -> "%5D"
           [] ch = "^" -> "%5E"
           [] ch = "{" -> "%7B"
           [] ch = "|" -> "%7C"
           [] ch = "}" -> "%7D"
           [] ch = "\t" -> "%09"
           [] ch = "\n" -> "%0A"
           [] ch = "\r" -> "%0D"

encodeURIComponent(s) == [i \in 1..Len(s) |-> EncodeChar(s[i])]

\* crypto.randomBytes(16).toString("hex") + ":" + userId
AuthState(rnd, userId) == rnd \o <<":">> \o userId

FacebookScopes ==
    <<"public_profile", "pages_show_list", "pages_read_engagement",
      "pages_manage_posts">>

InstagramScopes ==
    <<"public_profile", "pages_show_list", "pages_read_engagement">>

\* the authorize url, a string: literal pieces are single tokens
AuthUrl(clientId, redirectUri, state, scopes) ==
    Concat(<< <<"https://www.facebook.com/v21.0/dialog/oauth?">>,
              <<"client_id=", clientId>>,
              <<"&redirect_uri=">>, encodeURIComponent(redirectUri),
              <<"&state=">>, state,
              <<"&scope=">>, Join(scopes, ","),
              <<"&response_type=code">> >>)

FacebookAuthUrlResult(e, userId, redirectUri, rnd) ==
    LET state == AuthState(rnd, userId)
        id == FacebookAppId(e)
    IN IF ~id.ok THEN id
       ELSE Ok([url |-> AuthUrl(id.v, redirectUri, state, FacebookScopes),
                state |-> state])

InstagramAuthUrlResult(e, userId, redirectUri, rnd) ==
    LET state == AuthState(rnd, userId)
        id == InstagramAppId(e)
    IN IF ~id.ok THEN id
       ELSE Ok([url |-> AuthUrl(id.v, redirectUri, state, InstagramScopes),
                state |-> state])

FacebookGetAuthUrl(c) ==
    /\ pc[c] = "idle"
    /\ \E userId \in UserIdsOf(c), redirectUri \in RedirectUrisOf(c),
          rnd \in RandomHexOf(c) :
         /\ self' = [self EXCEPT ![c] =
                        [platform |-> "facebook", method |-> "getAuthUrl",
                         userId |-> userId, redirectUri |-> redirectUri,
                         rnd |-> rnd]]
         /\ Finish(c, FacebookAuthUrlResult(env, userId, redirectUri, rnd))
    /\ UNCHANGED env

InstagramGetAuthUrl(c) ==
    /\ pc[c] = "idle"
    /\ \E userId \in UserIdsOf(c), redirectUri \in RedirectUrisOf(c),
          rnd \in RandomHexOf(c) :
         /\ self' = [self EXCEPT ![c] =
                        [platform |-> "instagram", method |-> "getAuthUrl",
                         userId |-> userId, redirectUri |-> redirectUri,
                         rnd |-> rnd]]
         /\ Finish(c, InstagramAuthUrlResult(env, userId, redirectUri, rnd))
    /\ UNCHANGED env

(***************************************************************************)
(* handleCallback and refreshToken                                         *)
(***************************************************************************)
\* error.message strings of the provider, character by character:
\* "Invalid OAuth access token" and
\* "Tried accessing nonexisting fields (shares)"
ErrorMessages ==
    {
     <<"I", "n", "v", "a", "l", "i", "d", " ", "O", "A", "u", "t", "h", " ",
       "a", "c", "c", "e", "s", "s", " ", "t", "o", "k", "e", "n">>,
     <<"T", "r", "i", "e", "d", " ", "a", "c", "c", "e", "s", "s", "i", "n",
       "g", " ", "n", "o", "n", "e", "x", "i", "s", "t", "i", "n", "g", " ",
       "f", "i", "e", "l", "d", "s", " ", "(", "s", "h", "a", "r", "e", "s",
       ")">>
    }

\* the characters of "nonexisting field"
NonexistingField ==
    <<"n", "o", "n", "e", "x", "i", "s", "t", "i", "n", "g", " ", "f", "i",
      "e", "l", "d">>

\* expires_in as the provider may send it: omitted, or a number of seconds
ExpiresInValues == {None, Some(-1), Some(0), Some(1)}

\* answers of the token endpoint: {error} or {access_token, expires_in?}
TokenPayloads ==
    {[error |-> Some([message |-> m]), access_token |-> None,
      expires_in |-> None] : m \in ErrorMessages}
    \cup {[error |-> None, access_token |-> Some(t), expires_in |-> x] :
            t \in Tokens, x \in ExpiresInValues}

\* the template strings read this.appId, then this.appSecret
FacebookCredentials(e) ==
    LET id == FacebookAppId(e)
        secret == FacebookAppSecret(e)
    IN IF ~id.ok THEN id
       ELSE IF ~secret.ok THEN secret
       ELSE Ok([client_id |-> id.v, client_secret |-> secret.v])

InstagramCredentials(e) ==
    LET id == InstagramAppId(e)
        secret == InstagramAppSecret(e)
    IN IF ~id.ok THEN id
       ELSE IF ~secret.ok THEN secret
       ELSE Ok([client_id |-> id.v, client_secret |-> secret.v])

\* GET /oauth/access_token?client_id&client_secret&redirect_uri&code
CodeExchangeRequest(cr, redirectUri, code) ==
    [path |-> "/oauth/access_token",
     query |-> [client_id |-> cr.client_id, client_secret |-> cr.client_secret,
                redirect_uri |-> encodeURIComponent(redirectUri),
                code |-> code]]

\* GET /oauth/access_token?grant_type=fb_exchange_token&...&fb_exchange_token
LongLivedRequest(cr, token) ==
    [path |-> "/oauth/access_token",
     query |-> [grant_type |-> "fb_exchange_token",
                client_id |-> cr.client_id, client_secret |-> cr.client_secret,
                fb_exchange_token |-> token]]

\* A timestamp is held as whole seconds plus 0..999 milliseconds: the
\* millisecond value of a date 60 days ahead does not fit TLC's integers.
Timestamp(ms) == [sec |-> ms \div MsPerSecond, ms |-> ms % MsPerSecond]

\* a is strictly later than b
Later(a, b) == a.sec > b.sec \/ (a.sec = b.sec /\ a.ms > b.ms)

\* timestamp a plus n seconds
PlusSeconds(a, n) == [sec |-> a.sec + n, ms |-> a.ms]

\* new Date(Date.now() + (expires_in ?? 5184000) * 1000), Date.now() = t
ExpiresAt(t, expires_in) ==
    PlusSeconds(Timestamp(t), Coalesce(expires_in, DefaultExpiresIn))

\* FacebookPlatform.handleCallback after the long-lived exchange answered
FacebookLongLivedResult(t, longData) ==
    IF IsSome(longData.error)
    THEN Throw(PlatformError("facebook", longData.error[1].message))
    ELSE Ok([accessToken |-> longData.access_token,
             expiresAt |-> ExpiresAt(t, longData.expires_in),
             scopes |-> <<"pages_manage_posts", "pages_read_engagement",
                          "read_insights">>])

\* InstagramPlatform.handleCallback after the long-lived exchange answered:
\* longData.error is not looked at
InstagramLongLivedResult(t, data, longData) ==
    Ok([accessToken |-> IF IsSome(longData.access_token)
                        THEN longData.access_token ELSE data.access_token,
        expiresAt |-> ExpiresAt(t, longData.expires_in),
        scopes |-> <<"instagram_basic", "instagram_content_publish",
                     "instagram_manage_insights">>])

FacebookRefreshResult(t, data) ==
    IF IsSome(data.error)
    THEN Throw(PlatformError("facebook", data.error[1].message))
    ELSE Ok([accessToken |-> data.access_token,
             expiresAt |-> ExpiresAt(t, data.expires_in),
             scopes |-> <<"pages_manage_posts", "pages_read_engagement">>])

InstagramRefreshResult(t, data) ==
    IF IsSome(data.error)
    THEN Throw(PlatformError("instagram", data.error[1].message))
    ELSE Ok([accessToken |-> data.access_token,
             expiresAt |-> ExpiresAt(t, data.expires_in),
             scopes |-> <<"instagram_basic", "instagram_content_publish">>])

\* handleCallback up to `await fetch(url)`
FacebookHandleCallback(c) ==
    /\ pc[c] = "idle"
    /\ \E code \in {"code1"}, redirectUri \in RedirectUrisOf(c),
          t \in ClockOf(c) :
         LET cr == FacebookCredentials(env) IN
         /\ self' = [self EXCEPT ![c] =
                        [platform |-> "facebook", method |-> "handleCallback",
                         code |-> code, redirectUri |-> redirectUri,
                         calledAt |-> t]]
         /\ IF cr.ok
            THEN Fetch(c, CodeExchangeRequest(cr.v, redirectUri, code),
                       "fb_handleCallback_code")
            ELSE Finish(c, cr)
    /\ UNCHANGED env

\* from the answer of the code exchange to `await fetch(longLivedUrl)`
FacebookHandleCallbackCode(c) ==
    /\ pc[c] = "fb_handleCallback_code"
    /\ \E out \in FetchOutcomes(TokenPayloads) :
         /\ self' = [self EXCEPT ![c] = With(@, "res", out)]
         /\ IF out.kind = "reject"
            THEN Finish(c, Throw(TransportError(out.stage)))
            ELSE IF IsSome(out.body.error)
            THEN Finish(c, Throw(PlatformError("facebook",
                                               out.body.error[1].message)))
            ELSE LET cr == FacebookCredentials(env) IN
                 IF cr.ok
                 THEN Fetch(c, LongLivedRequest(cr.v, out.body.access_token),
                            "fb_handleCallback_long")
                 ELSE Finish(c, cr)
    /\ UNCHANGED env

\* from the answer of the long-lived exchange to the return
FacebookHandleCallbackLong(c) ==
    /\ pc[c] = "fb_handleCallback_long"
    /\ \E out \in FetchOutcomes(TokenPayloads), t \in ClockOf(c) :
         /\ t >= self[c].calledAt
         /\ self' = [self EXCEPT ![c] =
                        With(With(@, "longRes", out), "dateNow", t)]
         /\ IF out.kind = "reject"
            THEN Finish(c, Throw(TransportError(out.stage)))
            ELSE Finish(c, FacebookLongLivedResult(t, out.body))
    /\ UNCHANGED env

InstagramHandleCallback(c) ==
    /\ pc[c] = "idle"
    /\ \E code \in {"code1"}, redirectUri \in RedirectUrisOf(c),
          t \in ClockOf(c) :
         LET cr == InstagramCredentials(env) IN
         /\ self' = [self EXCEPT ![c] =
                        [platform |-> "instagram", method |-> "handleCallback",
                         code |-> code, redirectUri |-> redirectUri,
                         calledAt |-> t]]
         /\ IF cr.ok
            THEN Fetch(c, CodeExchangeRequest(cr.v, redirectUri, code),
                       "ig_handleCallback_code")
            ELSE Finish(c, cr)
    /\ UNCHANGED env

InstagramHandleCallbackCode(c) ==
    /\ pc[c] = "ig_handleCallback_code"
    /\ \E out \in FetchOutcomes(TokenPayloads) :
         /\ self' = [self EXCEPT ![c] = With(@, "res", out)]
         /\ IF out.kind = "reject"
            THEN Finish(c, Throw(TransportError(out.stage)))
            ELSE IF IsSome(out.body.error)
            THEN Finish(c, Throw(PlatformError("instagram",
                                               out.body.error[1].message)))
            ELSE LET cr == InstagramCredentials(env) IN
                 IF cr.ok
                 THEN Fetch(c, LongLivedRequest(cr.v, out.body.access_token),
                            "ig_handleCallback_long")
                 ELSE Finish(c, cr)
    /\ UNCHANGED env

InstagramHandleCallbackLong(c) ==
    /\ pc[c] = "ig_handleCallback_long"
    /\ \E out \in FetchOutcomes(TokenPayloads), t \in ClockOf(c) :
         /\ t >= self[c].calledAt
         /\ self' = [self EXCEPT ![c] =
                        With(With(@, "longRes", out), "dateNow", t)]
         /\ IF out.kind = "reject"
            THEN Finish(c, Throw(TransportError(out.stage)))
            ELSE Finish(c, InstagramLongLivedResult(t, self[c].res.body,
                                                     out.body))
    /\ UNCHANGED env

\* refreshToken up to `await fetch(url)`
FacebookRefreshToken(c) ==
    /\ pc[c] = "idle"
    /\ \E refreshToken \in TokensOf(c), t \in ClockOf(c) :
         LET cr == FacebookCredentials(env) IN
         /\ self' = [self EXCEPT ![c] =
                        [platform |-> "facebook", method |-> "refreshToken",
                         refreshToken |-> refreshToken, calledAt |-> t]]
         /\ IF cr.ok
            THEN Fetch(c, LongLivedRequest(cr.v, Some(refreshToken)),
                       "fb_refreshToken")
            ELSE Finish(c, cr)
    /\ UNCHANGED env

FacebookRefreshTokenDone(c) ==
    /\ pc[c] = "fb_refreshToken"
    /\ \E out \in FetchOutcomes(TokenPayloads), t \in ClockOf(c) :
         /\ t >= self[c].calledAt
         /\ self' = [self EXCEPT ![c] =
                        With(With(@, "res", out), "dateNow", t)]
         /\ IF out.kind = "reject"
            THEN Finish(c, Throw(TransportError(out.stage)))
            ELSE Finish(c, FacebookRefreshResult(t, out.body))
    /\ UNCHANGED env

InstagramRefreshToken(c) ==
    /\ pc[c] = "idle"
    /\ \E refreshToken \in TokensOf(c), t \in ClockOf(c) :
         LET cr == InstagramCredentials(env) IN
         /\ self' = [self EXCEPT ![c] =
                        [platform |-> "instagram", method |-> "refreshToken",
                         refreshToken |-> refreshToken, calledAt |-> t]]
         /\ IF cr.ok
            THEN Fetch(c, LongLivedRequest(cr.v, Some(refreshToken)),
                       "ig_refreshToken")
            ELSE Finish(c, cr)
    /\ UNCHANGED env

InstagramRefreshTokenDone(c) ==
    /\ pc[c] = "ig_refreshToken"
    /\ \E out \in FetchOutcomes(TokenPayloads), t \in ClockOf(c) :
         /\ t >= self[c].calledAt
         /\ self' = [self EXCEPT ![c] =
                        With(With(@, "res", out), "dateNow", t)]
         /\ IF out.kind = "reject"
            THEN Finish(c, Throw(TransportError(out.stage)))
            ELSE Finish(c, InstagramRefreshResult(t, out.body))
    /\ UNCHANGED env

(***************************************************************************)
(* getAccount                                                              *)
(***************************************************************************)

\* pages of /me/accounts?fields=id,name,category,picture,access_token ;
\* picture stands for picture?.data?.url
FacebookPages ==
    {[id |-> "p1", name |-> "Page1", picture |-> Some("p1.png"),
      access_token |-> Some("ptok1")],
     [id |-> "p2", name |-> "Page2", picture |-> None,
      access_token |-> Some("ptok2")]}

\* answers of a list endpoint: {error}, {} or {data: [...]}
ListPayloads(items) ==
    {[error |-> Some([message |-> m]), data |-> None] : m \in ErrorMessages}
    \cup {[error |-> None, data |-> None]}
    \cup {[error |-> None, data |-> Some(l)] : l \in SeqsUpTo(items, MaxPages)}

\* answers of /me?fields=id,name,picture.width(200)
ProfilePayloads ==
    {[error |-> Some([message |-> m]), id |-> None, name |-> None,
      picture |-> None] : m \in ErrorMessages}
    \cup {[error |-> None, id |-> Some("u1"), name |-> Some("Ann"),
           picture |-> Some("ann.png")],
          [error |-> None, id |-> None, name |-> None, picture |-> None]}

PagesRequest(fields, accessToken) ==
    [path |-> "/me/accounts",
     query |-> [fields |-> fields, access_token |-> accessToken]]

ProfileRequest(accessToken) ==
    [path |-> "/me",
     query |-> [fields |-> "id,name,picture.width(200)",
                access_token |-> accessToken]]

\* no page is ever taken from the list
FacebookNoPage(pagesData) == None

\* the last page of the list instead of the first
FacebookLastPage(pagesData) ==
    IF IsSome(pagesData.data) /\ Len(pagesData.data[1]) > 0
    THEN Some(pagesData.data[1][Len(pagesData.data[1])])
    ELSE None

\* pagesData.data?.[0]
FacebookFirstPage(pagesData) ==
    IF IsSome(pagesData.data) /\ Len(pagesData.data[1]) > 0
    THEN Some(pagesData.data[1][1])
    ELSE None

\* the account built from a page
FacebookPageAccount(page) ==
    [platformAccountId |-> page.id,
     accountName |-> <<page.name>>,
     accountType |-> "page",
     avatarUrl |-> page.picture,
     pageAccessToken |-> page.access_token]

\* the account built from the profile
FacebookProfileAccount(profile) ==
    [platformAccountId |-> profile.id,
     accountName |-> <<Coalesce(profile.name, "undefined"), " (perfil)">>,
     accountType |-> "profile",
     avatarUrl |-> profile.picture]

\* getAccount up to `await fetch(.../me/accounts...)`
FacebookGetAccount(c) ==
    /\ pc[c] = "idle"
    /\ \E accessToken \in TokensOf(c) :
         /\ self' = [self EXCEPT ![c] =
                        [platform |-> "facebook", method |-> "getAccount",
                         accessToken |-> accessToken]]
         /\ Fetch(c, PagesRequest("id,name,category,picture,access_token",
                                  accessToken), "fb_getAccount_pages")
    /\ UNCHANGED env

\* from the answer of the pages request to the return or the profile request
FacebookGetAccountPages(c) ==
    /\ pc[c] = "fb_getAccount_pages"
    /\ \E out \in FetchOutcomes(ListPayloads(FacebookPages)) :
         /\ self' = [self EXCEPT ![c] = With(@, "pagesRes", out)]
         /\ IF out.kind = "reject"
            THEN Finish(c, Throw(TransportError(out.stage)))
            ELSE IF IsSome(out.body.error)
            THEN Finish(c, Throw(PlatformError("facebook",
                                               out.body.error[1].message)))
            ELSE LET page == FacebookFirstPage(out.body) IN
                 IF IsSome(page)
                 THEN Finish(c, Ok(FacebookPageAccount(page[1])))
                 ELSE Fetch(c, ProfileRequest(self[c].accessToken),
                            "fb_getAccount_profile")
    /\ UNCHANGED env

\* from the answer of the profile request to the return
FacebookGetAccountProfile(c) ==
    /\ pc[c] = "fb_getAccount_profile"
    /\ \E out \in FetchOutcomes(ProfilePayloads) :
         /\ self' = [self EXCEPT ![c] = With(@, "profileRes", out)]
         /\ IF out.kind = "reject"
            THEN Finish(c, Throw(TransportError(out.stage)))
            ELSE IF IsSome(out.body.error)
            THEN Finish(c, Throw(PlatformError("facebook",
                                               out.body.error[1].message)))
            ELSE Finish(c, Ok(FacebookProfileAccount(out.body)))
    /\ UNCHANGED env

\* pages of /me/accounts?fields=id,name,instagram_business_account{...}
InstagramPages ==
    {[id |-> "p1", name |-> "Page1", instagram_business_account |-> None],
     [id |-> "p2", name |-> "Page2", instagram_business_account |->
        Some([id |-> "ig2", username |-> Some("shop"),
              profile_picture_url |-> Some("ig2.png")])],
     [id |-> "p3", name |-> "Page3", instagram_business_account |->
        Some([id |-> "ig3", username |-> None,
              profile_picture_url |-> None])]}

\* the message of the error thrown when no page has a business account
NoBusinessAccount ==
    <<"No se encontro una cuenta de Instagram Business conectada a tus paginas de Facebook.">>

\* the business account of the last page that has one
InstagramLastBusiness(pages) ==
    LET has == {i \in DOMAIN pages :
                  IsSome(pages[i].instagram_business_account)}
    IN IF has = {}
       THEN Throw(PlatformError("instagram", NoBusinessAccount))
       ELSE LET page == pages[CHOOSE i \in has : \A j \in has : j <= i]
                ig == page.instagram_business_account[1]
            IN Ok([platformAccountId |-> ig.id,
                   accountName |-> <<Coalesce(ig.username, page.name)>>,
                   accountType |-> "business",
                   avatarUrl |-> ig.profile_picture_url])

RECURSIVE InstagramFirstBusiness(_)
\* for (const page of pagesData.data ?? []) ... ; throw
InstagramFirstBusiness(pages) ==
    IF pages = <<>>
    THEN Throw(PlatformError("instagram", NoBusinessAccount))
    ELSE LET page == Head(pages) IN
         IF IsSome(page.instagram_business_account)
         THEN LET ig == page.instagram_business_account[1] IN
              Ok([platformAccountId |-> ig.id,
                  accountName |-> <<Coalesce(ig.username, page.name)>>,
                  accountType |-> "business",
                  avatarUrl |-> ig.profile_picture_url])
         ELSE InstagramFirstBusiness(Tail(pages))

\* InstagramPlatform.getAccount from the outcome of its request on
InstagramAccountResult(out) ==
    IF out.kind = "reject"
    THEN Throw(TransportError(out.stage))
    ELSE IF IsSome(out.body.error)
    THEN Throw(PlatformError("instagram", out.body.error[1].message))
    ELSE InstagramFirstBusiness(Coalesce(out.body.data, <<>>))

InstagramPagesFields ==
    "id,name,instagram_business_account{id,username,profile_picture_url}"

InstagramGetAccount(c) ==
    /\ pc[c] = "idle"
    /\ \E accessToken \in TokensOf(c) :
         /\ self' = [self EXCEPT ![c] =
                        [platform |-> "instagram", method |-> "getAccount",
                         accessToken |-> accessToken]]
         /\ Fetch(c, PagesRequest(InstagramPagesFields, accessToken),
                  "ig_getAccount_pages")
    /\ UNCHANGED env

InstagramGetAccountPages(c) ==
    /\ pc[c] = "ig_getAccount_pages"
    /\ \E out \in FetchOutcomes(ListPayloads(InstagramPages)) :
         /\ self' = [self EXCEPT ![c] = With(@, "pagesRes", out)]
         /\ Finish(c, InstagramAccountResult(out))
    /\ UNCHANGED env

(***************************************************************************)
(* publishContent                                                          *)
(***************************************************************************)
\* hashtags as the caller writes them, character by character
HashtagLists == {<<>>, << <<"f", "o", "o">>, <<"#", "b", "a", "r">> >>}

Contents ==
    [caption : {<<"Hello">>},
     hashtags : HashtagLists,
     mediaUrl : {None, Some(""), Some("http://x/img.png")},
     mediaType : {None, Some("image"), Some("video")},
     accountId : {None, Some("acct1")}]

\* concurrent publications: no hashtags, no account id, a media type, and
\* a media url or none
ContentsOf(c) ==
    Passes(c, Contents,
           {x \in Contents : /\ x.hashtags = <<>>
                             /\ x.accountId = None
                             /\ x.mediaUrl # Some("")
                             /\ x.mediaType # None})

\* a '#' prepended to every hashtag
RenderHashtagAlways(h) == <<"#">> \o h

\* h.startsWith("#") ? h : `#${h}`
RenderHashtag(h) ==
    IF Len(h) > 0 /\ h[1] = "#" THEN h ELSE <<"#">> \o h

RECURSIVE JoinStrings(_, _)
\* Array.prototype.join on an array of character strings
JoinStrings(xs, sep) ==
    IF xs = <<>> THEN <<>>
    ELSE IF Len(xs) = 1 THEN xs[1]
    ELSE xs[1] \o <<sep>> \o JoinStrings(Tail(xs), sep)

\* `${content.caption}\n\n${content.hashtags.map(...).join(" ")}`
RenderCaption(content) ==
    content.caption \o <<"\n\n">>
    \o JoinStrings([i \in 1..Len(content.hashtags) |->
                       RenderHashtag(content.hashtags[i])], " ")

\* the container parameters, or the validation error
InstagramContainerParams(accessToken, content) ==
    LET base == [caption |-> RenderCaption(content),
                 access_token |-> accessToken]
    IN IF Truthy(content.mediaUrl) /\ content.mediaType = Some("video")
       THEN Ok(With(With(base, "media_type", "REELS"),
                    "video_url", content.mediaUrl[1]))
       ELSE IF Truthy(content.mediaUrl)
       THEN Ok(With(base, "image_url", content.mediaUrl[1]))
       ELSE Throw(PlatformError("instagram",
              <<"Instagram requiere un media (imagen o video) para publicar.">>))

\* answers of a POST that creates an object: {error} or {id}
CreatedPayloads(ids) ==
    {[error |-> Some([message |-> m]), id |-> None] : m \in ErrorMessages}
    \cup {[error |-> None, id |-> Some(i)] : i \in ids}

ContainerRequest(igId, params) ==
    [path |-> <<igId, "/media">>, body |-> params]

\* a publish request that names the account instead of the container
MediaPublishRequestOfAccount(igId, containerId, accessToken) ==
    [path |-> <<igId, "/media_publish">>,
     body |-> [creation_id |-> Some(igId), access_token |-> accessToken]]

MediaPublishRequest(igId, containerId, accessToken) ==
    [path |-> <<igId, "/media_publish">>,
     body |-> [creation_id |-> containerId, access_token |-> accessToken]]

\* publishContent up to the request of `await this.getAccount(accessToken)`
InstagramPublishContent(c) ==
    /\ pc[c] = "idle"
    /\ \E accessToken \in TokensOf(c), content \in ContentsOf(c) :
         /\ self' = [self EXCEPT ![c] =
                        [platform |-> "instagram", method |-> "publishContent",
                         accessToken |-> accessToken, content |-> content]]
         /\ Fetch(c, PagesRequest(InstagramPagesFields, accessToken),
                  "ig_publish_account")
    /\ UNCHANGED env

\* from the answer to getAccount's request to the container request
InstagramPublishAccount(c) ==
    /\ pc[c] = "ig_publish_account"
    /\ \E out \in FetchOutcomes(ListPayloads(InstagramPages)) :
         LET account == InstagramAccountResult(out)
             params == InstagramContainerParams(self[c].accessToken,
                                                self[c].content)
         IN IF ~account.ok
            THEN /\ Finish(c, account)
                 /\ self' = [self EXCEPT ![c] = With(@, "accountRes", out)]
            ELSE IF ~params.ok
            THEN /\ Finish(c, params)
                 /\ self' = [self EXCEPT ![c] =
                                With(With(@, "accountRes", out),
                                     "account", account.v)]
            ELSE /\ Fetch(c, ContainerRequest(account.v.platformAccountId,
                                              params.v), "ig_publish_container")
                 /\ self' = [self EXCEPT ![c] =
                                With(With(@, "accountRes", out),
                                     "account", account.v)]
    /\ UNCHANGED env

\* from the answer of the container request to the media_publish request
InstagramPublishContainer(c) ==
    /\ pc[c] = "ig_publish_container"
    /\ \E out \in FetchOutcomes(CreatedPayloads({"cont1", "cont2"})) :
         IF out.kind = "reject"
         THEN /\ Finish(c, Throw(TransportError(out.stage)))
              /\ self' = [self EXCEPT ![c] = With(@, "containerRes", out)]
         ELSE IF IsSome(out.body.error)
         THEN /\ Finish(c, Throw(PlatformError("instagram",
                                               out.body.error[1].message)))
              /\ self' = [self EXCEPT ![c] = With(@, "containerRes", out)]
         ELSE /\ Fetch(c, MediaPublishRequest(
                            self[c].account.platformAccountId,
                            out.body.id, self[c].accessToken),
                       "ig_publish_publish")
              /\ self' = [self EXCEPT ![c] =
                             With(With(@, "containerRes", out),
                                  "containerId", out.body.id)]
    /\ UNCHANGED env

\* the PublishResult built from media_publish's answer
InstagramPublishResult(publishData) ==
    IF IsSome(publishData.error)
    THEN Throw(PlatformError("instagram", publishData.error[1].message))
    ELSE Ok([platformPostId |-> publishData.id,
             platformPostUrl |-> <<"https://www.instagram.com/p/",
                                   Coalesce(publishData.id, "undefined")>>])

\* from the answer of the media_publish request to the return
InstagramPublishPublish(c) ==
    /\ pc[c] = "ig_publish_publish"
    /\ \E out \in FetchOutcomes(CreatedPayloads({"post1"})) :
         /\ IF out.kind = "reject"
            THEN Finish(c, Throw(TransportError(out.stage)))
            ELSE Finish(c, InstagramPublishResult(out.body))
         /\ self' = [self EXCEPT ![c] = With(@, "publishRes", out)]
    /\ UNCHANGED env

\* a target that is always the caller's own identity
FacebookTargetMe(content) == "me"

\* const target = content.accountId ?? "me"
FacebookTarget(content) == Coalesce(content.accountId, "me")

\* the edge of the target the content is posted to
FacebookEndpoint(content) ==
    IF Truthy(content.mediaUrl) /\ content.mediaType = Some("image")
    THEN "/photos"
    ELSE IF Truthy(content.mediaUrl) /\ content.mediaType = Some("video")
    THEN "/videos"
    ELSE "/feed"

\* the JSON body of the POST, keyed by the edge
FacebookPublishBody(accessToken, content) ==
    LET caption == RenderCaption(content)
    IN IF FacebookEndpoint(content) = "/photos"
       THEN [url |-> content.mediaUrl[1], message |-> caption,
             access_token |-> accessToken]
       ELSE IF FacebookEndpoint(content) = "/videos"
       THEN [file_url |-> content.mediaUrl[1], description |-> caption,
             access_token |-> accessToken]
       ELSE [message |-> caption, access_token |-> accessToken]

\* POST ${META_API_BASE}/${target}/<edge>
FacebookPublishRequest(accessToken, content) ==
    [path |-> <<FacebookTarget(content), FacebookEndpoint(content)>>,
     body |-> FacebookPublishBody(accessToken, content)]

\* answers of the publishing POST: {error}, or {id?, post_id?}
PublishedPayloads ==
    {[error |-> Some([message |-> m]), id |-> None, post_id |-> None] :
        m \in ErrorMessages}
    \cup [error : {None}, id : {None, Some("id1")},
          post_id : {None, Some("post1")}]

\* the PublishResult built from the answer of the POST
FacebookPublishResult(data) ==
    IF IsSome(data.error)
    THEN Throw(PlatformError("facebook", data.error[1].message))
    ELSE LET postId == IF IsSome(data.id) THEN data.id ELSE data.post_id
         IN Ok([platformPostId |-> postId,
                platformPostUrl |-> <<"https://www.facebook.com/",
                                      Coalesce(postId, "undefined")>>])

\* publishContent up to its single request
FacebookPublishContent(c) ==
    /\ pc[c] = "idle"
    /\ \E accessToken \in TokensOf(c), content \in ContentsOf(c) :
         /\ self' = [self EXCEPT ![c] =
                        [platform |-> "facebook", method |-> "publishContent",
                         accessToken |-> accessToken, content |-> content]]
         /\ Fetch(c, FacebookPublishRequest(accessToken, content),
                  "fb_publish")
    /\ UNCHANGED env

\* from the answer of the POST to the return
FacebookPublishDone(c) ==
    /\ pc[c] = "fb_publish"
    /\ \E out \in FetchOutcomes(PublishedPayloads) :
         /\ self' = [self EXCEPT ![c] = With(@, "res", out)]
         /\ IF out.kind = "reject"
            THEN Finish(c, Throw(TransportError(out.stage)))
            ELSE Finish(c, FacebookPublishResult(out.body))
    /\ UNCHANGED env

(***************************************************************************)
(* getPostMetrics                                                          *)
(***************************************************************************)
\* a page post id (PAGEID_POSTID) and a standalone photo/video id
PostIds == {<<"1", "_", "2">>, <<"9">>}

Counts == 0..MaxCount

\* JSON values by their typeof
Num(k) == [type |-> "number", n |-> k]
Str(s) == [type |-> "string", s |-> s]
Obj(vals) == [type |-> "object", vals |-> vals]

\* item.values?.[0]?.value of an insights item: undefined, a number, or a
\* breakdown map (given by its values)
InsightValues ==
    {None} \cup {Some(Num(k)) : k \in Counts}
    \cup {Some(Obj(<<Num(1), Str("n/a"), Num(MaxCount)>>))}

FacebookInsightNames ==
    <<"post_impressions", "post_impressions_unique", "post_engaged_users">>

\* answers of /{postId}/insights?metric=post_impressions,...
FacebookInsightsPayloads ==
    {[error |-> Some([message |-> m]), data |-> None] : m \in ErrorMessages}
    \cup {[error |-> None, data |-> None]}
    \cup {[error |-> None, data |->
             Some([i \in 1..3 |-> [name |-> FacebookInsightNames[i],
                                   value |-> f[i]]])] :
            f \in [1..3 -> InsightValues]}

\* answers of /{postId}?fields=reactions...,comments...[,shares]; each field
\* stands for its count (summary.total_count, count).  The call reads
\* reactions, comments and shares of the answer whatever fields it asked for.
SocialPayloads ==
    {[error |-> Some([message |-> m]), reactions |-> None, comments |-> None,
      shares |-> None] : m \in ErrorMessages}
    \cup {[error |-> None, reactions |-> None, comments |-> None,
           shares |-> None]}
    \cup {[error |-> None, reactions |-> Some(l), comments |-> Some(k),
           shares |-> s] :
            l \in Counts, k \in Counts,
            s \in {None} \cup {Some(n) : n \in Counts}}

fieldsWithShares ==
    <<"reactions.limit(0).summary(true)", "comments.limit(0).summary(true)",
      "shares">>

fieldsNoShares ==
    <<"reactions.limit(0).summary(true)", "comments.limit(0).summary(true)">>

\* every post id taken for a page post
isPagePostAlways(postId) == Len(postId) >= 0

\* postId.includes("_")
isPagePost(postId) == Includes(postId, <<"_">>)

\* the field list of the first social-count request
FirstSocialFields(postId) ==
    IF isPagePost(postId) THEN fieldsWithShares ELSE fieldsNoShares

\* a retry that repeats the first request
RetrySocialFieldsRepeated(postId) == FirstSocialFields(postId)

\* the field list of the second social-count request
RetrySocialFields(postId) == fieldsNoShares

InsightsRequest(postId, metric, accessToken) ==
    [path |-> postId \o <<"/insights">>,
     query |-> [metric |-> metric, access_token |-> accessToken]]

SocialRequest(postId, fields, accessToken) ==
    [path |-> postId,
     query |-> [fields |-> fields, access_token |-> accessToken]]

RECURSIVE SumNumbers(_)
\* Object.values(val).reduce((sum, v) => sum + (typeof v === "number" ? v : 0), 0)
SumNumbers(vals) ==
    IF vals = <<>> THEN 0
    ELSE (IF Head(vals).type = "number" THEN Head(vals).n ELSE 0)
         + SumNumbers(Tail(vals))

\* metrics[k] of a Record<string, number>: undefined when never assigned
Lookup(metrics, k) == IF k \in DOMAIN metrics THEN Some(metrics[k]) ELSE None

RECURSIVE FacebookCollect(_, _)
\* for (const item of data.data) { ... metrics[item.name] = ... }
FacebookCollect(items, metrics) ==
    IF items = <<>> THEN metrics
    ELSE LET item == Head(items)
             val == item.value
         IN FacebookCollect(Tail(items),
              IF IsSome(val) /\ val[1].type = "number"
              THEN With(metrics, item.name, val[1].n)
              ELSE IF IsSome(val) /\ val[1].type = "object"
              THEN With(metrics, item.name, SumNumbers(val[1].vals))
              ELSE metrics)

NoInsights == [impressions |-> 0, reach |-> 0, engagedUsers |-> 0]

\* impressions, reach and engagedUsers after the insights block; ins is None
\* when the block was skipped, else the outcome of its request
FacebookInsights(ins) ==
    IF ~IsSome(ins) THEN NoInsights
    ELSE IF ins[1].kind = "reject" THEN NoInsights
    ELSE IF IsSome(ins[1].body.error) THEN NoInsights
    ELSE IF IsSome(ins[1].body.data)
    THEN LET metrics == FacebookCollect(ins[1].body.data[1], <<>>) IN
         [impressions |-> Coalesce(Lookup(metrics, "post_impressions"), 0),
          reach |-> Coalesce(Lookup(metrics, "post_impressions_unique"), 0),
          engagedUsers |-> Coalesce(Lookup(metrics, "post_engaged_users"), 0)]
    ELSE NoInsights

\* socialData.error?.message?.includes("nonexisting field")
ShouldRetrySocial(out) ==
    /\ out.kind = "json"
    /\ IsSome(out.body.error)
    /\ Includes(out.body.error[1].message, NonexistingField)

NoSocial == [likes |-> 0, comments |-> 0, shares |-> 0]

\* likes, comments and shares after the social block, from the outcome of its
\* last request
FacebookSocial(out) ==
    IF out.kind = "reject" THEN NoSocial
    ELSE IF IsSome(out.body.error) THEN NoSocial
    ELSE [likes |-> Coalesce(out.body.reactions, 0),
          comments |-> Coalesce(out.body.comments, 0),
          shares |-> Coalesce(out.body.shares, 0)]

\* (engagedUsers / reach) * 100 as the fraction num/den;  a zero divisor is
\* kept as den = 0 (Infinity or NaN)
Ratio(engagedUsers, reach) == [num |-> engagedUsers * 100, den |-> reach]

ZeroRate == [num |-> 0, den |-> 1]

\* the division without its guard
FacebookEngagementRateUnguarded(engagedUsers, reach) ==
    Ratio(engagedUsers, reach)

\* reach > 0 ? (engagedUsers / reach) * 100 : 0
FacebookEngagementRate(engagedUsers, reach) ==
    IF reach > 0 THEN Ratio(engagedUsers, reach) ELSE ZeroRate

\* the impressions reported: the interaction sum when insights gave 0
FacebookImpressions(impressions, totalInteractions) ==
    IF impressions = 0 /\ totalInteractions > 0
    THEN totalInteractions
    ELSE impressions

\* a record whose views are the impressions before the fallback
FacebookPostMetricsNativeViews(ins, soc) ==
    [views |-> ins.impressions,
     likes |-> soc.likes,
     comments |-> soc.comments,
     shares |-> soc.shares,
     saves |-> 0,
     watchTimeSeconds |-> 0,
     avgWatchPercent |-> 0,
     reachUnique |-> ins.reach,
     impressions |-> FacebookImpressions(ins.impressions,
                                         soc.likes + soc.comments + soc.shares),
     engagementRate |-> FacebookEngagementRate(ins.engagedUsers, ins.reach)]

\* the PostMetrics returned
FacebookPostMetrics(ins, soc) ==
    LET impressions ==
            FacebookImpressions(ins.impressions,
                                soc.likes + soc.comments + soc.shares)
    IN [views |-> impressions,
        likes |-> soc.likes,
        comments |-> soc.comments,
        shares |-> soc.shares,
        saves |-> 0,
        watchTimeSeconds |-> 0,
        avgWatchPercent |-> 0,
        reachUnique |-> ins.reach,
        impressions |-> impressions,
        engagementRate |-> FacebookEngagementRate(ins.engagedUsers, ins.reach)]

\* the outcome of the insights request of the call with locals s; None when
\* the call has issued none
InsightsAnswer(s) == IF "insights" \in DOMAIN s THEN s.insights ELSE None

\* getPostMetrics up to its first request: insights for a page post, else
\* the social counts
FacebookGetPostMetrics(c) ==
    /\ pc[c] = "idle"
    /\ \E accessToken \in TokensOf(c), postId \in PostIds :
         /\ self' = [self EXCEPT ![c] =
                        [platform |-> "facebook", method |-> "getPostMetrics",
                         accessToken |-> accessToken, postId |-> postId]]
         /\ IF isPagePost(postId)
            THEN Fetch(c, InsightsRequest(postId, FacebookInsightNames,
                                          accessToken), "fb_metrics_insights")
            ELSE Fetch(c, SocialRequest(postId, FirstSocialFields(postId),
                                        accessToken), "fb_metrics_social")
    /\ UNCHANGED env

\* from the outcome of the insights request to the social-count request
FacebookGetPostMetricsInsights(c) ==
    /\ pc[c] = "fb_metrics_insights"
    /\ \E out \in FetchOutcomes(FacebookInsightsPayloads) :
         /\ self' = [self EXCEPT ![c] = With(@, "insights", Some(out))]
         /\ Fetch(c, SocialRequest(self[c].postId,
                                   FirstSocialFields(self[c].postId),
                                   self[c].accessToken), "fb_metrics_social")
    /\ UNCHANGED env

\* from the outcome of the social-count request to the retry or the return
FacebookGetPostMetricsSocial(c) ==
    /\ pc[c] = "fb_metrics_social"
    /\ \E out \in FetchOutcomes(SocialPayloads) :
         /\ self' = [self EXCEPT ![c] = With(@, "social", out)]
         /\ IF ShouldRetrySocial(out)
            THEN Fetch(c, SocialRequest(self[c].postId,
                                        RetrySocialFields(self[c].postId),
                                        self[c].accessToken),
                       "fb_metrics_retry")
            ELSE Finish(c, Ok(FacebookPostMetrics(
                                FacebookInsights(InsightsAnswer(self[c])),
                                FacebookSocial(out))))
    /\ UNCHANGED env

\* from the outcome of the second social-count request to the return
FacebookGetPostMetricsRetry(c) ==
    /\ pc[c] = "fb_metrics_retry"
    /\ \E out \in FetchOutcomes(SocialPayloads) :
         /\ self' = [self EXCEPT ![c] = With(@, "retry", out)]
         /\ Finish(c, Ok(FacebookPostMetrics(
                           FacebookInsights(InsightsAnswer(self[c])),
                           FacebookSocial(out))))
    /\ UNCHANGED env

InstagramInsightNames ==
    <<"impressions", "reach", "likes", "comments", "shares", "saved">>

\* the metrics the modelled provider reports on
InstagramReported == <<"impressions", "reach", "saved">>

\* answers of /{postId}/insights?metric=impressions,reach,...: each reported
\* metric is left out, or is an item with a count
InstagramInsightsPayloads ==
    {[error |-> Some([message |-> m]), data |-> None] : m \in ErrorMessages}
    \cup {[error |-> None, data |-> None]}
    \cup {[error |-> None, data |->
             Some(SelectSeq([i \in 1..3 |-> [name |-> InstagramReported[i],
                                             value |-> f[i]]],
                            LAMBDA item : item.value # None))] :
            f \in [1..3 -> {None} \cup {Some(Num(k)) : k \in Counts}]}

RECURSIVE InstagramCollect(_, _)
\* for (const item of data.data ?? []) metrics[item.name] = value ?? 0
InstagramCollect(items, metrics) ==
    IF items = <<>> THEN metrics
    ELSE InstagramCollect(Tail(items),
            With(metrics, Head(items).name,
                 IF IsSome(Head(items).value)
                 THEN Head(items).value[1].n ELSE 0))

\* the PostMetrics returned for the answer data
InstagramPostMetrics(data) ==
    LET metrics == InstagramCollect(Coalesce(data.data, <<>>), <<>>) IN
    [views |-> Coalesce(Lookup(metrics, "impressions"), 0),
     likes |-> Coalesce(Lookup(metrics, "likes"), 0),
     comments |-> Coalesce(Lookup(metrics, "comments"), 0),
     shares |-> Coalesce(Lookup(metrics, "shares"), 0),
     saves |-> Coalesce(Lookup(metrics, "saved"), 0),
     watchTimeSeconds |-> 0,
     avgWatchPercent |-> 0,
     reachUnique |-> Coalesce(Lookup(metrics, "reach"), 0),
     impressions |-> Coalesce(Lookup(metrics, "impressions"), 0),
     engagementRate |-> ZeroRate]

InstagramGetPostMetrics(c) ==
    /\ pc[c] = "idle"
    /\ \E accessToken \in TokensOf(c), postId \in PostIds :
         /\ self' = [self EXCEPT ![c] =
                        [platform |-> "instagram", method |-> "getPostMetrics",
                         accessToken |-> accessToken, postId |-> postId]]
         /\ Fetch(c, InsightsRequest(postId, InstagramInsightNames,
                                     accessToken), "ig_metrics_insights")
    /\ UNCHANGED env

\* from the outcome of the insights request to the return; nothing catches a
\* rejected fetch() or res.json()
InstagramGetPostMetricsInsights(c) ==
    /\ pc[c] = "ig_metrics_insights"
    /\ \E out \in FetchOutcomes(InstagramInsightsPayloads) :
         /\ self' = [self EXCEPT ![c] = With(@, "insights", Some(out))]
         /\ IF out.kind = "reject"
            THEN Finish(c, Throw(TransportError(out.stage)))
            ELSE Finish(c, Ok(InstagramPostMetrics(out.body)))
    /\ UNCHANGED env

(***************************************************************************)
(* The caller                                                              *)
(***************************************************************************)
(***************************************************************************)
(* getAccountMetrics                                                       *)
(***************************************************************************)
AccountIds == {"acct1"}

\* follower numbers a node can report
FollowerCounts == {None, Some(0), Some(2)}

\* answers of GET /{accountId}?fields=followers_count,fan_count
FacebookNodePayloads ==
    {[error |-> Some([message |-> m]), followers_count |-> None,
      fan_count |-> None] : m \in ErrorMessages}
    \cup [error : {None}, followers_count : FollowerCounts,
          fan_count : {None, Some(1)}]

\* answers of GET /{accountId}?fields=followers_count,media_count
InstagramNodePayloads ==
    {[error |-> Some([message |-> m]), followers_count |-> None,
      media_count |-> None] : m \in ErrorMessages}
    \cup [error : {None}, followers_count : FollowerCounts,
          media_count : {None, Some(1)}]

NodeRequest(accountId, fields, accessToken) ==
    [path |-> accountId,
     query |-> [fields |-> fields, access_token |-> accessToken]]

AccountMetrics(followers) ==
    [followers |-> followers, followersGrowth |-> 0, totalViews |-> 0,
     totalWatchMinutes |-> 0, avgEngagementRate |-> 0]

\* the AccountMetrics built from the node's answer, or the provider's error
FacebookAccountMetrics(data) ==
    IF IsSome(data.error)
    THEN Throw(PlatformError("facebook", data.error[1].message))
    ELSE Ok(AccountMetrics(
              IF IsSome(data.followers_count) THEN data.followers_count[1]
              ELSE Coalesce(data.fan_count, 0)))

\* the AccountMetrics built from the node's answer; data.error is not read
InstagramAccountMetrics(data) ==
    Ok(AccountMetrics(Coalesce(data.followers_count, 0)))

FacebookGetAccountMetrics(c) ==
    /\ pc[c] = "idle"
    /\ \E accessToken \in TokensOf(c), accountId \in AccountIds :
         /\ self' = [self EXCEPT ![c] =
                        [platform |-> "facebook",
                         method |-> "getAccountMetrics",
                         accessToken |-> accessToken,
                         accountId |-> accountId]]
         /\ Fetch(c, NodeRequest(accountId, "followers_count,fan_count",
                                 accessToken), "fb_account_metrics")
    /\ UNCHANGED env

FacebookGetAccountMetricsDone(c) ==
    /\ pc[c] = "fb_account_metrics"
    /\ \E out \in FetchOutcomes(FacebookNodePayloads) :
         /\ self' = [self EXCEPT ![c] = With(@, "res", out)]
         /\ IF out.kind = "reject"
            THEN Finish(c, Throw(TransportError(out.stage)))
            ELSE Finish(c, FacebookAccountMetrics(out.body))
    /\ UNCHANGED env

InstagramGetAccountMetrics(c) ==
    /\ pc[c] = "idle"
    /\ \E accessToken \in TokensOf(c), accountId \in AccountIds :
         /\ self' = [self EXCEPT ![c] =
                        [platform |-> "instagram",
                         method |-> "getAccountMetrics",
                         accessToken |-> accessToken,
                         accountId |-> accountId]]
         /\ Fetch(c, NodeRequest(accountId, "followers_count,media_count",
                                 accessToken), "ig_account_metrics")
    /\ UNCHANGED env

InstagramGetAccountMetricsDone(c) ==
    /\ pc[c] = "ig_account_metrics"
    /\ \E out \in FetchOutcomes(InstagramNodePayloads) :
         /\ self' = [self EXCEPT ![c] = With(@, "res", out)]
         /\ IF out.kind = "reject"
            THEN Finish(c, Throw(TransportError(out.stage)))
            ELSE Finish(c, InstagramAccountMetrics(out.body))
    /\ UNCHANGED env

\* the caller takes the result of its finished call and may call again
TakeResult(c) ==
    /\ pc[c] = "done"
    /\ pc' = [pc EXCEPT ![c] = "idle"]
    /\ self' = [self EXCEPT ![c] = [method |-> "none"]]
    /\ net' = [net EXCEPT ![c] = <<>>]
    /\ result' = [result EXCEPT ![c] = NoResult]
    /\ UNCHANGED env

Next ==
    \E c \in Sequential :
        \/ FacebookGetAuthUrl(c)
        \/ InstagramGetAuthUrl(c)
        \/ FacebookHandleCallback(c)
        \/ FacebookHandleCallbackCode(c)
        \/ FacebookHandleCallbackLong(c)
        \/ InstagramHandleCallback(c)
        \/ InstagramHandleCallbackCode(c)
        \/ InstagramHandleCallbackLong(c)
        \/ FacebookRefreshToken(c)
        \/ FacebookRefreshTokenDone(c)
        \/ InstagramRefreshToken(c)
        \/ InstagramRefreshTokenDone(c)
        \/ FacebookGetAccount(c)
        \/ FacebookGetAccountPages(c)
        \/ FacebookGetAccountProfile(c)
        \/ InstagramGetAccount(c)
        \/ InstagramGetAccountPages(c)
        \/ InstagramPublishContent(c)
        \/ InstagramPublishAccount(c)
        \/ InstagramPublishContainer(c)
        \/ InstagramPublishPublish(c)
        \/ FacebookPublishContent(c)
        \/ FacebookPublishDone(c)
        \/ FacebookGetPostMetrics(c)
        \/ FacebookGetPostMetricsInsights(c)
        \/ FacebookGetPostMetricsSocial(c)
        \/ FacebookGetPostMetricsRetry(c)
        \/ InstagramGetPostMetrics(c)
        \/ InstagramGetPostMetricsInsights(c)
        \/ FacebookGetAccountMetrics(c)
        \/ FacebookGetAccountMetricsDone(c)
        \/ InstagramGetAccountMetrics(c)
        \/ InstagramGetAccountMetricsDone(c)
        \/ TakeResult(c)

Spec == Init /\ [][Next]_vars

\* the calls of one caller of an adapter instance, step by step
Step(c) ==
    \/ FacebookGetAuthUrl(c)
    \/ InstagramGetAuthUrl(c)
    \/ FacebookHandleCallback(c)
    \/ FacebookHandleCallbackCode(c)
    \/ FacebookHandleCallbackLong(c)
    \/ InstagramHandleCallback(c)
    \/ InstagramHandleCallbackCode(c)
    \/ InstagramHandleCallbackLong(c)
    \/ FacebookRefreshToken(c)
    \/ FacebookRefreshTokenDone(c)
    \/ InstagramRefreshToken(c)
    \/ InstagramRefreshTokenDone(c)
    \/ FacebookGetAccount(c)
    \/ FacebookGetAccountPages(c)
    \/ FacebookGetAccountProfile(c)
    \/ InstagramGetAccount(c)
    \/ InstagramGetAccountPages(c)
    \/ InstagramPublishContent(c)
    \/ InstagramPublishAccount(c)
    \/ InstagramPublishContainer(c)
    \/ InstagramPublishPublish(c)
    \/ FacebookPublishContent(c)
    \/ FacebookPublishDone(c)
    \/ FacebookGetPostMetrics(c)
    \/ FacebookGetPostMetricsInsights(c)
    \/ FacebookGetPostMetricsSocial(c)
    \/ FacebookGetPostMetricsRetry(c)
    \/ InstagramGetPostMetrics(c)
    \/ InstagramGetPostMetricsInsights(c)
    \/ FacebookGetAccountMetrics(c)
    \/ FacebookGetAccountMetricsDone(c)
    \/ InstagramGetAccountMetrics(c)
    \/ InstagramGetAccountMetricsDone(c)
    \/ TakeResult(c)

\* the arguments of a call and the answers it was given, by their names in
\* self; the other names of self are values the call computed
InputFields ==
    {"platform", "method", "userId", "redirectUri", "rnd", "code",
     "calledAt", "dateNow", "refreshToken", "accessToken", "content",
     "postId", "accountId", "res", "longRes", "pagesRes", "profileRes",
     "accountRes", "containerRes", "publishRes", "insights", "social",
     "retry"}

\* the call with locals s was given the arguments of the call with locals r
\* and, as far as it has come, the answers r was given
SameInputs(s, r) ==
    \A f \in DOMAIN s \cap InputFields : f \in DOMAIN r /\ s[f] = r[f]

\* the bodies without error payload given to the calls that run
\* concurrently: b answers the request whose outcome the call with locals s
\* keeps under the name f
SmallBody(s, f, b) ==
    CASE f \in {"res", "longRes"}
           /\ s.method \in {"handleCallback", "refreshToken"} ->
             b.access_token = Some("tokA") /\ b.expires_in \in {None, Some(1)}
      [] f = "res" /\ s.method = "publishContent" -> b.post_id = None
      [] f = "res" /\ s.method = "getAccountMetrics" ->
             b.followers_count # Some(0)
      [] f \in {"pagesRes", "accountRes"} ->
             b.data # None =>
                 /\ Len(b.data[1]) <= 1
                 /\ \A i \in DOMAIN b.data[1] :
                        b.data[1][i].id \in {"p1", "p2"}
      [] f = "containerRes" -> b.id = Some("cont1")
      [] f = "insights" ->
             b.data # None =>
                 /\ Len(b.data[1]) \in {0, 3}
                 /\ \A i \in DOMAIN b.data[1] :
                        b.data[1][i].value = Some(Num(1))
      [] f \in {"social", "retry"} ->
             /\ b.reactions \in {None, Some(1)}
             /\ b.comments = b.reactions
             /\ b.shares \in {None, b.reactions}
      [] OTHER -> TRUE

\* the outcomes given to the calls that run concurrently: the rejected
\* fetch, the error payloads (both messages for the request that may be
\* retried, the first for the others) and the bodies of SmallBody
SmallAnswer(s, f, out) ==
    IF out.kind = "reject" THEN out.stage = "fetch failed"
    ELSE IF out.body.error # None
    THEN f = "social" \/ ~Includes(out.body.error[1].message, NonexistingField)
    ELSE SmallBody(s, f, out.body)

\* the names under which self keeps the outcome of a request
AnswerFields ==
    {"res", "longRes", "pagesRes", "profileRes", "accountRes",
     "containerRes", "publishRes", "social", "retry"}

SmallAnswers(s) ==
    /\ \A f \in AnswerFields \cap DOMAIN s : SmallAnswer(s, f, s[f])
    /\ "insights" \in DOMAIN s => SmallAnswer(s, "insights", s.insights[1])

\* a call made and finished while no other call is in flight
RunAlone ==
    /\ pc[Same] = "idle"
    /\ pc[Other] = "idle"
    /\ Step(Alone)
    /\ SmallAnswers(self[Alone])'

\* the same call, given the same answers, made while the third caller's call
\* is in flight
RunSame ==
    /\ pc[Alone] = "done"
    /\ Step(Same)
    /\ (self[Same].method = "none" \/ SameInputs(self[Same], self[Alone]))'

\* any call for another token
RunOther ==
    /\ pc[Alone] = "done"
    /\ Step(Other)
    /\ SmallAnswers(self[Other])'

NextConcurrent == RunAlone \/ RunSame \/ RunOther

\* the adapter is configured: every call reaches its network round trips
InitConcurrent ==
    /\ Init
    /\ env.META_APP_ID = Some("app")
    /\ env.META_APP_SECRET = Some("secret")

SpecConcurrent == InitConcurrent /\ [][NextConcurrent]_vars

(***************************************************************************)
(* Properties                                                              *)
(***************************************************************************)
\* caller c is in a call of method of the adapter platform (running or done)
InCall(c, platform, method) ==
    /\ self[c].method = method
    /\ self[c].platform = platform

\* that call has finished and its result has not been taken yet
Finished(c, platform, method) ==
    pc[c] = "done" /\ InCall(c, platform, method)

Platforms == {"facebook", "instagram"}

\* the outcome out is an answer carrying an error payload
IsErrorAnswer(out) == out.kind = "json" /\ IsSome(out.body.error)

\* the outcome out is an error payload or a transport failure
IsFailure(out) == out.kind = "reject" \/ IsErrorAnswer(out)

ValidationMessage ==
    <<"Instagram requiere un media (imagen o video) para publicar.">>

\* C1: InstagramPlatform.publishContent, given content without mediaUrl,
\* fails with the instagram-tagged validation error and has issued no request
\* when it fails.
C1_NoMediaFailsBeforeNetwork ==
    \A c \in Callers :
        (Finished(c, "instagram", "publishContent")
         /\ self[c].content.mediaUrl = None)
        => /\ result[c] = Thrown(PlatformError("instagram", ValidationMessage))
           /\ net[c] = <<>>

\* C2: handleCallback of either adapter fails with the provider's message
\* when the code exchange or the long-lived exchange answered with an error
\* payload; it returns no TokenPair then.
C2_CallbackFailsOnProviderError ==
    \A c \in Callers, p \in Platforms :
        Finished(c, p, "handleCallback") =>
            /\ ("res" \in DOMAIN self[c] /\ IsErrorAnswer(self[c].res))
               => result[c] = Thrown(PlatformError(p,
                                  self[c].res.body.error[1].message))
            /\ ("longRes" \in DOMAIN self[c] /\ IsErrorAnswer(self[c].longRes))
               => result[c] = Thrown(PlatformError(p,
                                  self[c].longRes.body.error[1].message))

\* the answer a finished token call built its TokenPair from
TokenAnswer(c) ==
    IF self[c].method = "handleCallback" THEN self[c].longRes ELSE self[c].res

\* C3: every TokenPair returned by handleCallback or refreshToken has
\* expiresAt strictly later than the time of the call, whatever expires_in
\* the provider sent, and exactly 5,184,000 seconds after the time it was
\* computed when the provider sent none.
C3_ExpiresAtInFuture ==
    \A c \in Callers, p \in Platforms, m \in {"handleCallback", "refreshToken"} :
        (Finished(c, p, m) /\ result[c].kind = "return") =>
            /\ Later(result[c].value.expiresAt, Timestamp(self[c].calledAt))
            /\ TokenAnswer(c).body.expires_in = None
               => result[c].value.expiresAt
                    = PlusSeconds(Timestamp(self[c].dateNow), 5184000)

\* the outcome of the last social-count request of a finished Facebook
\* getPostMetrics call
LastSocial(c) ==
    IF "retry" \in DOMAIN self[c] THEN self[c].retry ELSE self[c].social

\* the rate r is exactly 0
IsZeroRate(r) == r.num = 0 /\ r.den # 0

\* C4: getPostMetrics of both adapters always returns a PostMetrics record,
\* whatever the outcome of its sub-queries, and the fields a sub-query that
\* errored or failed decides are 0 (Facebook insights: reachUnique and
\* engagementRate; Facebook social counts: likes, comments, shares;
\* Instagram insights: every field).
C4_PostMetricsNeverFails ==
    \A c \in Callers :
        /\ Finished(c, "facebook", "getPostMetrics") =>
            /\ result[c].kind = "return"
            /\ (/\ IsSome(InsightsAnswer(self[c]))
                /\ IsFailure(InsightsAnswer(self[c])[1]))
               => /\ result[c].value.reachUnique = 0
                  /\ IsZeroRate(result[c].value.engagementRate)
            /\ IsFailure(LastSocial(c))
               => /\ result[c].value.likes = 0
                  /\ result[c].value.comments = 0
                  /\ result[c].value.shares = 0
        /\ Finished(c, "instagram", "getPostMetrics") =>
            /\ result[c].kind = "return"
            /\ IsFailure(InsightsAnswer(self[c])[1])
               => \A f \in {"views", "likes", "comments", "shares", "saves",
                            "reachUnique", "impressions"} :
                      result[c].value[f] = 0

\* the requests of net[c] whose path is path
RequestsTo(c, path) ==
    SelectSeq(net[c], LAMBDA req : req.path = path)

\* the message msg contains "nonexisting field"
SaysNonexistingField(msg) ==
    \E i \in 1..(Len(msg) - 16) :
        SubSeq(msg, i, i + 16)
          = <<"n", "o", "n", "e", "x", "i", "s", "t", "i", "n", "g", " ",
              "f", "i", "e", "l", "d">>

\* the first social-count request of c's call was answered with an error
\* whose message contains "nonexisting field"
FirstSocialNonexisting(c) ==
    /\ "social" \in DOMAIN self[c]
    /\ IsErrorAnswer(self[c].social)
    /\ SaysNonexistingField(self[c].social.body.error[1].message)

\* C5: in FacebookPlatform.getPostMetrics a call issues at most two
\* social-count requests and at most three requests; once the first
\* social-count request is answered with a "nonexisting field" error there is
\* exactly one further social-count request, which does not ask for shares;
\* and the finished call has returned a PostMetrics record.
C5_RetryOnceWithoutShares ==
    \A c \in Callers :
        InCall(c, "facebook", "getPostMetrics") =>
            LET social == RequestsTo(c, self[c].postId) IN
            /\ Len(social) <= 2
            /\ Len(net[c]) <= 3
            /\ FirstSocialNonexisting(c)
               => /\ Len(social) = 2
                  /\ \A i \in DOMAIN social[2].query.fields :
                         social[2].query.fields[i] # "shares"
            /\ pc[c] = "done" => result[c].kind = "return"

\* a call whose insights request, social-count request and retry were all
\* issued, the retry failing with the same error, has returned a record
C5_Witness ==
    \E c \in Callers :
        /\ Finished(c, "facebook", "getPostMetrics")
        /\ FirstSocialNonexisting(c)
        /\ self[c].retry = self[c].social
        /\ Len(net[c]) = 3
        /\ result[c].kind = "return"

\* the pages request of c's getAccount call was answered, without an error
\* payload, with a non-empty page list
PagesFound(c) ==
    /\ "pagesRes" \in DOMAIN self[c]
    /\ self[c].pagesRes.kind = "json"
    /\ self[c].pagesRes.body.error = None
    /\ IsSome(self[c].pagesRes.body.data)
    /\ self[c].pagesRes.body.data[1] # <<>>

\* C6: FacebookPlatform.getAccount, when the pages request succeeds with a
\* non-empty list, returns the first page of the list as a "page" account with
\* that page's own access token, and the pages request is the only request:
\* the profile is neither asked for nor returned.
C6_FirstPageWins ==
    \A c \in Callers :
        (InCall(c, "facebook", "getAccount") /\ PagesFound(c)) =>
            LET first == self[c].pagesRes.body.data[1][1] IN
            /\ pc[c] = "done"
            /\ result[c].kind = "return"
            /\ result[c].value.accountType = "page"
            /\ result[c].value.platformAccountId = first.id
            /\ result[c].value.accountName = <<first.name>>
            /\ result[c].value.pageAccessToken = first.access_token
            /\ Len(net[c]) = 1
            /\ RequestsTo(c, "/me") = <<>>

\* a call answered with two different pages has returned the first one
C6_Witness ==
    \E c \in Callers :
        /\ Finished(c, "facebook", "getAccount")
        /\ PagesFound(c)
        /\ Len(self[c].pagesRes.body.data[1]) = 2
        /\ self[c].pagesRes.body.data[1][1].id = "p2"
        /\ self[c].pagesRes.body.data[1][2].id = "p1"
        /\ result[c].value.platformAccountId = "p2"
        /\ result[c].value.pageAccessToken = Some("ptok2")

\* the largest index of s that holds ch, 0 when none does
LastIndexOf(s, ch) ==
    LET at == {i \in DOMAIN s : s[i] = ch} IN
    IF at = {} THEN 0 ELSE CHOOSE i \in at : \A j \in at : j <= i

\* what follows the last ch of s
AfterLast(s, ch) == SubSeq(s, LastIndexOf(s, ch) + 1, Len(s))

\* the smallest index of s that holds the token tok
IndexOf(s, tok) == CHOOSE i \in DOMAIN s : s[i] = tok /\ \A j \in 1..(i - 1) : s[j] # tok

\* the text of url between "&state=" and "&scope="
StateInUrl(url) ==
    SubSeq(url, IndexOf(url, "&state=") + 1, IndexOf(url, "&scope=") - 1)

\* C7: for every userId, also one that contains ':', the state returned by
\* getAuthUrl of either adapter, cut at its last ':', gives back the userId,
\* and the url embeds that same state.
C7_StateSuffixIsUserId ==
    \A c \in Callers, p \in Platforms :
        (Finished(c, p, "getAuthUrl") /\ result[c].kind = "return") =>
            /\ AfterLast(result[c].value.state, ":") = self[c].userId
            /\ StateInUrl(result[c].value.url) = result[c].value.state

\* a required secret is absent: unset or empty
Absent(o) == o = None \/ o = Some("")

\* the configuration error of adapter p for the first absent secret, in the
\* order the code reads them
ConfigurationError(p) ==
    PlatformError(p, IF Absent(env.META_APP_ID)
                     THEN <<"META_APP_ID no configurado">>
                     ELSE <<"META_APP_SECRET no configurado">>)

\* the call of c has failed with p's configuration error, no request issued
FailedOnConfiguration(c, p) ==
    /\ pc[c] = "done"
    /\ result[c] = Thrown(ConfigurationError(p))
    /\ net[c] = <<>>

\* C8 as stated: getAuthUrl, handleCallback and refreshToken of either adapter
\* fail with that adapter's configuration error, before any request, whenever
\* the application identifier or the application secret is absent.
C8_AnySecretAbsentFails ==
    \A c \in Callers, p \in Platforms,
       m \in {"getAuthUrl", "handleCallback", "refreshToken"} :
        (InCall(c, p, m)
         /\ (Absent(env.META_APP_ID) \/ Absent(env.META_APP_SECRET)))
        => FailedOnConfiguration(c, p)

\* C8 amended: handleCallback and refreshToken fail so whenever either secret
\* is absent; getAuthUrl, which reads the application identifier only, fails
\* so whenever the identifier is absent and returns when it is present.
C8_RequiredSecretAbsentFails ==
    \A c \in Callers, p \in Platforms :
        /\ \A m \in {"handleCallback", "refreshToken"} :
               (InCall(c, p, m)
                /\ (Absent(env.META_APP_ID) \/ Absent(env.META_APP_SECRET)))
               => FailedOnConfiguration(c, p)
        /\ InCall(c, p, "getAuthUrl") =>
               IF Absent(env.META_APP_ID)
               THEN FailedOnConfiguration(c, p)
               ELSE result[c].kind = "return"

\* an Instagram handleCallback that failed for the missing application secret
C8_Witness ==
    \E c \in Callers :
        /\ Finished(c, "instagram", "handleCallback")
        /\ env.META_APP_ID = Some("app")
        /\ Absent(env.META_APP_SECRET)
        /\ result[c] = Thrown(PlatformError("instagram",
                                <<"META_APP_SECRET no configurado">>))
        /\ net[c] = <<>>

\* the post id has no '_' separator
NoSeparator(postId) == \A i \in DOMAIN postId : postId[i] # "_"

\* C9 as stated: FacebookPlatform.getPostMetrics, given a postId without
\* '_', never issues the insights request: all its requests are social-count requests
\* that do not ask for shares; the record it returns has reachUnique 0,
\* engagementRate 0 and shares 0.
C9_NoSeparatorSkipsInsights ==
    \A c \in Callers :
        (InCall(c, "facebook", "getPostMetrics")
         /\ NoSeparator(self[c].postId)) =>
            /\ RequestsTo(c, self[c].postId \o <<"/insights">>) = <<>>
            /\ \A i \in DOMAIN net[c] :
                   /\ net[c][i].path = self[c].postId
                   /\ \A j \in DOMAIN net[c][i].query.fields :
                          net[c][i].query.fields[j] # "shares"
            /\ pc[c] = "done" =>
                   /\ result[c].kind = "return"
                   /\ result[c].value.reachUnique = 0
                   /\ IsZeroRate(result[c].value.engagementRate)
                   /\ result[c].value.shares = 0

\* the shares count of the last social-count answer of the call with locals
\* s, 0 when that answer failed, holds an error payload or carries no shares
AnsweredShares(s) ==
    LET last == IF "retry" \in DOMAIN s THEN s.retry ELSE s.social
    IN IF last.kind = "json" /\ last.body.error = None
          /\ last.body.shares # None
       THEN last.body.shares[1]
       ELSE 0

\* C9 as amended: FacebookPlatform.getPostMetrics, given a postId without
\* '_', never issues the insights request: all its requests are social-count
\* requests that do not ask for shares; the record it returns has
\* reachUnique 0 and engagementRate 0, and its shares is the shares count of
\* the last social-count answer, 0 when that answer carries none.
C9_NoSeparatorSharesAsAnswered ==
    \A c \in Callers :
        (InCall(c, "facebook", "getPostMetrics")
         /\ NoSeparator(self[c].postId)) =>
            /\ RequestsTo(c, self[c].postId \o <<"/insights">>) = <<>>
            /\ \A i \in DOMAIN net[c] :
                   /\ net[c][i].path = self[c].postId
                   /\ \A j \in DOMAIN net[c][i].query.fields :
                          net[c][i].query.fields[j] # "shares"
            /\ pc[c] = "done" =>
                   /\ result[c].kind = "return"
                   /\ result[c].value.reachUnique = 0
                   /\ IsZeroRate(result[c].value.engagementRate)
                   /\ result[c].value.shares = AnsweredShares(self[c])

\* such a call asked for no shares, was answered with a shares count of 1 and
\* has returned it
C9_Witness ==
    \E c \in Callers :
        /\ Finished(c, "facebook", "getPostMetrics")
        /\ NoSeparator(self[c].postId)
        /\ Len(net[c]) = 1
        /\ net[c][1].query.fields = fieldsNoShares
        /\ self[c].social.kind = "json"
        /\ self[c].social.body.shares = Some(1)
        /\ result[c].kind = "return"
        /\ result[c].value.likes = 1
        /\ result[c].value.shares = 1
        /\ result[c].value.reachUnique = 0

\* C10: in every PostMetrics returned by getPostMetrics of either adapter,
\* engagementRate is exactly 0 whenever reachUnique is 0.
C10_ZeroReachZeroRate ==
    \A c \in Callers, p \in Platforms :
        (Finished(c, p, "getPostMetrics") /\ result[c].kind = "return"
         /\ result[c].value.reachUnique = 0)
        => IsZeroRate(result[c].value.engagementRate)

\* a Facebook call whose insights reported engaged users and a reach of 0
C10_Witness ==
    \E c \in Callers :
        /\ Finished(c, "facebook", "getPostMetrics")
        /\ IsSome(InsightsAnswer(self[c]))
        /\ InsightsAnswer(self[c])[1].kind = "json"
        /\ IsSome(InsightsAnswer(self[c])[1].body.data)
        /\ InsightsAnswer(self[c])[1].body.data[1][2].value = Some(Num(0))
        /\ InsightsAnswer(self[c])[1].body.data[1][3].value = Some(Num(1))
        /\ result[c].value.reachUnique = 0
        /\ IsZeroRate(result[c].value.engagementRate)

\* the captions the call of c has sent: message, description or caption of a
\* request body
SentCaptions(c) ==
    {IF "message" \in DOMAIN net[c][i].body THEN net[c][i].body.message
     ELSE IF "description" \in DOMAIN net[c][i].body
     THEN net[c][i].body.description
     ELSE net[c][i].body.caption :
        i \in {j \in DOMAIN net[c] :
                 /\ "body" \in DOMAIN net[c][j]
                 /\ DOMAIN net[c][j].body
                      \cap {"message", "description", "caption"} # {}}}

\* hashtag h without its leading '#', when it has one
Bare(h) == IF Len(h) > 0 /\ h[1] = "#" THEN Tail(h) ELSE h

\* text is caption, a blank line, and one token per hashtag in input order,
\* separated by single spaces, each token '#' followed by the bare hashtag
WellTagged(text, content) ==
    text = content.caption \o <<"\n\n">>
           \o JoinStrings([i \in 1..Len(content.hashtags) |->
                              <<"#">> \o Bare(content.hashtags[i])], " ")

\* C11: in every caption that publishContent of either adapter sends, every
\* hashtag of content.hashtags appears once, in input order, as '#' followed
\* by the hashtag without its own leading '#'.
C11_HashtagsRenderedOnce ==
    \A c \in Callers :
        (\E p \in Platforms : InCall(c, p, "publishContent")) =>
            \A text \in SentCaptions(c) : WellTagged(text, self[c].content)

\* a caption was sent for the hashtags foo and #bar: it holds #foo and #bar
C11_Witness ==
    \E c \in Callers :
        /\ InCall(c, "facebook", "publishContent")
        /\ self[c].content.hashtags
             = << <<"f", "o", "o">>, <<"#", "b", "a", "r">> >>
        /\ SentCaptions(c)
             = {<<"Hello", "\n\n", "#", "f", "o", "o", " ",
                  "#", "b", "a", "r">>}

\* C12: getAccountMetrics of both adapters returns an AccountMetrics record
\* with followers 0 and every other field 0 when the node-fields request is
\* answered with an error payload or without the follower fields.
C12_AccountMetricsZeroDefault ==
    \A c \in Callers :
        (/\ \E p \in Platforms : Finished(c, p, "getAccountMetrics")
         /\ self[c].res.kind = "json"
         /\ \/ IsSome(self[c].res.body.error)
            \/ \A f \in DOMAIN self[c].res.body \cap
                          {"followers_count", "fan_count"} :
                   self[c].res.body[f] = None)
        => /\ result[c].kind = "return"
           /\ result[c].value = [followers |-> 0, followersGrowth |-> 0,
                                 totalViews |-> 0, totalWatchMinutes |-> 0,
                                 avgEngagementRate |-> 0]

\* the methods whose failures are surfaced to the caller
SurfacingMethods ==
    {"getAuthUrl", "handleCallback", "refreshToken", "getAccount",
     "publishContent"}

\* C13: every failure that getAuthUrl, handleCallback, refreshToken,
\* getAccount or publishContent surfaces, a transport failure included, is a
\* provider-tagged error that carries the name of the adapter that was called.
C13_FailuresCarryOwnProvider ==
    \A c \in Callers :
        (/\ pc[c] = "done"
         /\ self[c].method \in SurfacingMethods
         /\ result[c].kind = "throw")
        => /\ result[c].error.class = "PlatformError"
           /\ result[c].error.platform = self[c].platform

\* xs is an initial part of ys
IsPrefix(xs, ys) == Len(xs) <= Len(ys) /\ xs = SubSeq(ys, 1, Len(xs))

\* a step changes the call of one caller only, and never the configuration
OneCallerMoves ==
    /\ env' = env
    /\ \A c \in Callers :
         pc'[c] = pc[c]
           => self'[c] = self[c] /\ net'[c] = net[c] /\ result'[c] = result[c]
    /\ \A c, d \in Callers : (pc'[c] # pc[c] /\ pc'[d] # pc[d]) => c = d

\* caller c has been given every answer that d's call was given
GivenAll(c, d) ==
    \A f \in DOMAIN self[d] \cap InputFields : f \in DOMAIN self[c]

\* the call of caller c, as far as it has come, has issued the requests of
\* d's finished call in their order; it has finished exactly when it has
\* been given the answers d's call was given, and then with d's result
AsFinished(c, d) ==
    /\ IsPrefix(net[c], net[d])
    /\ pc[c] = "done" <=> GivenAll(c, d)
    /\ pc[c] = "done" => net[c] = net[d] /\ result[c] = result[d]
    /\ pc[c] # "done" => result[c] = NoResult

\* C14: two calls running concurrently on one adapter for different tokens,
\* their round trips interleaved in any order, do not interfere: no step of
\* one call changes another call or the configuration, and a call that runs
\* concurrently with another issues the requests and has the result of the
\* same call run alone on the same provider responses.
C14_ConcurrentCallsDoNotInterfere ==
    /\ [][OneCallerMoves]_vars
    /\ []((pc[Alone] = "done" /\ self[Same].method # "none")
            => AsFinished(Same, Alone))

\* the account resolution that took two round trips when run alone is
\* awaiting its second round trip while a publication for another token is
\* awaiting its third
C14_Witness ==
    /\ Finished(Alone, "facebook", "getAccount")
    /\ Len(net[Alone]) = 2
    /\ result[Alone].kind = "return"
    /\ pc[Same] = "fb_getAccount_profile"
    /\ net[Same] = net[Alone]
    /\ self[Same].accessToken = "tokA"
    /\ pc[Other] = "ig_publish_publish"
    /\ Len(net[Other]) = 3
    /\ self[Other].accessToken = "tokB"

\* the request paths of c's call, the account id cut off the node paths
Edges(c) ==
    [i \in DOMAIN net[c] |->
        IF net[c][i].path = "/me/accounts" THEN "/me/accounts"
        ELSE net[c][i].path[2]]

\* C15: InstagramPlatform.publishContent with media (a mediaUrl that is not
\* the empty string) issues its requests in
\* the order account resolution, container creation, container publish; the
\* container request follows a resolved account and carries REELS and
\* video_url for a video, image_url for any other media; the publish request
\* follows a container answer without error payload and carries the id of
\* that answer as creation_id; after a failed step no request follows.
C15_InstagramPublishOrder ==
    \A c \in Callers :
        (InCall(c, "instagram", "publishContent")
         /\ self[c].content.mediaUrl \notin {None, Some("")}) =>
            LET s == self[c]
                n == Len(net[c])
                video == s.content.mediaType = Some("video")
            IN /\ IsPrefix(Edges(c), <<"/me/accounts", "/media",
                                       "/media_publish">>)
               /\ n >= 2 =>
                    /\ ~IsFailure(s.accountRes)
                    /\ \E i \in DOMAIN s.accountRes.body.data[1] :
                         LET ig == s.accountRes.body.data[1][i]
                                     .instagram_business_account
                         IN /\ IsSome(ig)
                            /\ net[c][2].path[1] = ig[1].id
                    /\ DOMAIN net[c][2].body =
                         {"caption", "access_token"}
                         \cup (IF video THEN {"media_type", "video_url"}
                               ELSE {"image_url"})
                    /\ video => /\ net[c][2].body.media_type = "REELS"
                                /\ net[c][2].body.video_url
                                     = s.content.mediaUrl[1]
                    /\ ~video => net[c][2].body.image_url
                                   = s.content.mediaUrl[1]
               /\ n = 3 =>
                    /\ ~IsFailure(s.containerRes)
                    /\ net[c][3].path[1] = net[c][2].path[1]
                    /\ net[c][3].body.creation_id = s.containerRes.body.id
               /\ (pc[c] = "done" /\ "accountRes" \in DOMAIN s
                   /\ IsFailure(s.accountRes)) => n = 1
               /\ (pc[c] = "done" /\ "containerRes" \in DOMAIN s
                   /\ IsFailure(s.containerRes)) => n = 2
               /\ (pc[c] = "done" /\ "publishRes" \in DOMAIN s
                   /\ IsFailure(s.publishRes)) => result[c].kind = "throw"

\* a video was published: three requests, the third naming the container
\* that the second created
C15_Witness ==
    \E c \in Callers :
        /\ Finished(c, "instagram", "publishContent")
        /\ self[c].content.mediaType = Some("video")
        /\ self[c].content.mediaUrl = Some("http://x/img.png")
        /\ Len(net[c]) = 3
        /\ net[c][2].body.media_type = "REELS"
        /\ net[c][3].body.creation_id = Some("cont2")
        /\ result[c].kind = "return"

\* the native post_impressions value the insights sub-query of c's call
\* supplied: None when the sub-query was skipped, errored, failed, or its
\* answer holds no value for the metric
NativeImpressions(c) ==
    LET ins == InsightsAnswer(self[c]) IN
    IF ins = None \/ IsFailure(ins[1]) \/ ins[1].body.data = None THEN None
    ELSE LET items == ins[1].body.data[1]
             found == {i \in DOMAIN items :
                         /\ items[i].name = "post_impressions"
                         /\ items[i].value # None}
         IN IF found = {} THEN None
            ELSE LET v == items[CHOOSE i \in found : TRUE].value[1]
                 IN Some(IF v.type = "number" THEN v.n
                         ELSE SumNumbers(v.vals))

\* C16: FacebookPlatform.getPostMetrics returns the native post_impressions
\* value whenever the insights sub-query supplied one, the value 0 included;
\* it returns likes + comments + shares as impressions only when no native
\* value was supplied.
C16_NativeImpressionsKept ==
    \A c \in Callers :
        (Finished(c, "facebook", "getPostMetrics")
         /\ result[c].kind = "return") =>
            LET r == result[c].value
                native == NativeImpressions(c)
            IN IF native # None
               THEN r.impressions = native[1]
               ELSE r.impressions = r.likes + r.comments + r.shares

\* C17: FacebookPlatform.publishContent issues exactly one request per call:
\* to /photos iff there is a mediaUrl and mediaType is image, to /videos iff
\* there is a mediaUrl and mediaType is video, else to /feed (a mediaUrl that
\* is the empty string names no media and counts as none), of the node
\* content.accountId or "me"; a success returns the url
\* "https://www.facebook.com/" followed by the returned platformPostId; a
\* provider error payload fails the call.
C17_FacebookPublishOneRequest ==
    \A c \in Callers :
        InCall(c, "facebook", "publishContent") =>
            LET content == self[c].content
                media == content.mediaUrl \notin {None, Some("")}
                edge == net[c][1].path[2]
            IN /\ Len(net[c]) = 1
               /\ edge \in {"/photos", "/videos", "/feed"}
               /\ edge = "/photos"
                    <=> (media /\ content.mediaType = Some("image"))
               /\ edge = "/videos"
                    <=> (media /\ content.mediaType = Some("video"))
               /\ net[c][1].path[1] = (IF content.accountId = None THEN "me"
                                       ELSE content.accountId[1])
               /\ pc[c] = "done" =>
                    /\ IsErrorAnswer(self[c].res)
                         => /\ result[c].kind = "throw"
                            /\ result[c].error.message
                                 = self[c].res.body.error[1].message
                    /\ (~IsFailure(self[c].res))
                         => /\ result[c].kind = "return"
                            /\ result[c].value.platformPostUrl
                                 = <<"https://www.facebook.com/",
                                     IF result[c].value.platformPostId = None
                                     THEN "undefined"
                                     ELSE result[c].value.platformPostId[1]>>

\* an image was published to the photos edge of the account's page
C17_Witness ==
    \E c \in Callers :
        /\ Finished(c, "facebook", "publishContent")
        /\ self[c].content.mediaType = Some("image")
        /\ self[c].content.accountId = Some("acct1")
        /\ net[c] = <<FacebookPublishRequest(self[c].accessToken,
                                             self[c].content)>>
        /\ net[c][1].path = <<"acct1", "/photos">>
        /\ result[c].kind = "return"
        /\ result[c].value.platformPostUrl
             = <<"https://www.facebook.com/", "post1">>

\* the pages request of c's getAccount call was answered without an error
\* payload and with an empty or missing page list
NoPagesFound(c) ==
    /\ "pagesRes" \in DOMAIN self[c]
    /\ self[c].pagesRes.kind = "json"
    /\ self[c].pagesRes.body.error = None
    /\ \/ self[c].pagesRes.body.data = None
       \/ self[c].pagesRes.body.data[1] = <<>>

\* C18: FacebookPlatform.getAccount issues the personal-profile request only
\* after the pages request was answered without an error payload and with an
\* empty or missing page list, and as its second request; what it then
\* returns has accountType "profile" and no pageAccessToken.  An error
\* payload on the pages request fails the call with no profile request.
C18_ProfileOnlyAfterEmptyPages ==
    \A c \in Callers :
        InCall(c, "facebook", "getAccount") =>
            /\ net[c][1].path = "/me/accounts"
            /\ Len(net[c]) <= 2
            /\ Len(net[c]) = 2 <=> NoPagesFound(c)
            /\ Len(net[c]) = 2 => net[c][2] = ProfileRequest(self[c].accessToken)
            /\ (pc[c] = "done" /\ NoPagesFound(c)) =>
                 /\ result[c].kind = "return"
                      <=> ~IsFailure(self[c].profileRes)
                 /\ result[c].kind = "return"
                      => /\ result[c].value.accountType = "profile"
                         /\ "pageAccessToken" \notin DOMAIN result[c].value
            /\ ("pagesRes" \in DOMAIN self[c]
                /\ IsErrorAnswer(self[c].pagesRes)) =>
                 /\ pc[c] = "done"
                 /\ result[c].kind = "throw"
                 /\ result[c].error.message
                      = self[c].pagesRes.body.error[1].message
                 /\ RequestsTo(c, "/me") = <<>>

\* a call whose page list was empty has returned the profile identity after
\* two requests
C18_Witness ==
    \E c \in Callers :
        /\ Finished(c, "facebook", "getAccount")
        /\ self[c].pagesRes.kind = "json"
        /\ self[c].pagesRes.body.data = Some(<<>>)
        /\ Len(net[c]) = 2
        /\ result[c].kind = "return"
        /\ result[c].value.accountType = "profile"

\* the pages the pages request of c's call listed, none when data is missing
ListedPages(c) ==
    IF self[c].pagesRes.body.data = None THEN <<>>
    ELSE self[c].pagesRes.body.data[1]

\* the places in that list of the pages with an Instagram business account
WithBusiness(c) ==
    {i \in DOMAIN ListedPages(c) :
        ListedPages(c)[i].instagram_business_account # None}

\* C19: InstagramPlatform.getAccount returns the Instagram business account
\* of the first page, in list order, that has one, with accountType
\* "business"; it fails with the instagram-tagged "no eligible account" error
\* exactly when the pages request succeeded and no listed page has one (the
\* empty list included); it never returns a profile identity and never asks
\* for the profile.
C19_FirstBusinessAccount ==
    \A c \in Callers :
        Finished(c, "instagram", "getAccount") =>
            LET succeeded == ~IsFailure(self[c].pagesRes)
                noAccount ==
                    /\ result[c].kind = "throw"
                    /\ result[c].error.class = "PlatformError"
                    /\ result[c].error.platform = "instagram"
                    /\ result[c].error.message = NoBusinessAccount
            IN /\ noAccount <=> (succeeded /\ WithBusiness(c) = {})
               /\ (succeeded /\ WithBusiness(c) # {}) =>
                    LET i == CHOOSE k \in WithBusiness(c) :
                                 \A j \in WithBusiness(c) : k <= j
                        page == ListedPages(c)[i]
                        ig == page.instagram_business_account[1]
                    IN /\ result[c].kind = "return"
                       /\ result[c].value.platformAccountId = ig.id
                       /\ result[c].value.accountName
                            = <<IF ig.username = None THEN page.name
                                ELSE ig.username[1]>>
                       /\ result[c].value.avatarUrl = ig.profile_picture_url
               /\ result[c].kind = "return"
                    => result[c].value.accountType = "business"
               /\ Len(net[c]) = 1
               /\ RequestsTo(c, "/me") = <<>>

\* of two listed pages with a business account the first one's was returned
C19_Witness ==
    \E c \in Callers :
        /\ Finished(c, "instagram", "getAccount")
        /\ ~IsFailure(self[c].pagesRes)
        /\ WithBusiness(c) = {1, 2}
        /\ ListedPages(c)[1].id = "p3"
        /\ result[c].kind = "return"
        /\ result[c].value.platformAccountId = "ig3"
        /\ result[c].value.accountName = <<"Page3">>

\* C20: in every PostMetrics record that getPostMetrics of either adapter
\* returns, views equals impressions, also after the Facebook interaction-sum
\* fallback, and watchTimeSeconds and avgWatchPercent are 0.
C20_ViewsEqualImpressions ==
    \A c \in Callers :
        ((\E p \in Platforms : Finished(c, p, "getPostMetrics"))
         /\ result[c].kind = "return") =>
            /\ result[c].value.views = result[c].value.impressions
            /\ result[c].value.watchTimeSeconds = 0
            /\ result[c].value.avgWatchPercent = 0

\* a Facebook record after the fallback: no insights, one like, and views
\* and impressions both 1
C20_Witness ==
    \E c \in Callers :
        /\ Finished(c, "facebook", "getPostMetrics")
        /\ result[c].kind = "return"
        /\ NativeImpressions(c) = None
        /\ result[c].value.likes = 1
        /\ result[c].value.comments = 0
        /\ result[c].value.shares = 0
        /\ result[c].value.impressions = 1
        /\ result[c].value.views = 1

====
